---- MODULE Spec2Model ----
(***************************************************************************)
(* Model of clk_recipe_supervisor (python/supervisor.py): the Supervisor   *)
(* class that renders supervisord.conf, decides whether the daemon must be *)
(* (re)started, and the `supervisor` command group built on it.            *)
(*                                                                         *)
(* The program keeps no state in memory between invocations: everything is *)
(* in the file system (supervisord.conf, port.txt, supervisord.pid under   *)
(* the instance location, the included files, the profiles' settings) and  *)
(* in the process table.  These are the variables of the model.            *)
(*                                                                         *)
(* The daemon (supervisord), the control client (supervisorctl) and the    *)
(* clk library are not part of this repository.  They are modelled as the  *)
(* process handle the program relies on:                                   *)
(*   - launching the daemon creates a live process that listens on the     *)
(*     port of the config file it was given and writes the pid file;       *)
(*   - a shutdown command is accepted by a running daemon, which exits     *)
(*     later, on its own, and then removes the pid file if it still names  *)
(*     it;                                                                 *)
(*   - a process may die at any time without removing anything.            *)
(***************************************************************************)
EXTENDS Integers, Sequences, FiniteSets, TLC

(***************************************************************************)
(* Bounds of the model.                                                    *)
(***************************************************************************)
MaxTime == 2        \* the clock runs over 0..MaxTime
MaxPid == 2         \* process ids are 1..MaxPid
PortSpan == 2       \* ports BasePort..BasePort+PortSpan-1 can be probed
MaxFiles == 2       \* longest "files" list of a profile
NumInvokers == 2    \* command-line invocations that can be in progress

BasePort == 9001    \* find_available_port(9001)

Pids == 1..MaxPid
Ports == BasePort..(BasePort + PortSpan - 1)
Invokers == 1..NumInvokers

(***************************************************************************)
(* Paths.  Profiles are named by their location, in the order              *)
(* config.all_directory_profiles yields them.                              *)
(***************************************************************************)
Profiles == <<"/x", "/y">>
ProfileSet == {Profiles[i] : i \in 1..Len(Profiles)}
ProjectDir == "/p"
NoProject == ""
RelRefs == {"a.conf", "b.conf"}
AbsRefs == {"/z/c.conf"}
Refs == RelRefs \cup AbsRefs

\* Path(file).is_absolute()
IsAbsolute(file) == file \in AbsRefs

\* Path(dir) / file
PathJoin(dir, file) == dir \o "/" \o file

\* every path of an included file the model's file system can hold
DiskPaths == {PathJoin(d, f) : d \in ProfileSet \cup {ProjectDir}, f \in RelRefs} \cup AbsRefs

\* Supervisor.__init__: the instance location and the files under it
Location == PathJoin(Profiles[Len(Profiles)], "supervisor")
ConfPath == PathJoin(Location, "supervisord.conf")
SocketPath == PathJoin(Location, "supervisord.sock")
LogPath == PathJoin(Location, "supervisord.log")
PidPath == PathJoin(Location, "supervisord.pid")
PortPath == PathJoin(Location, "port.txt")

VARIABLES
    settings,   \* profile location -> its supervisor "files" list
    enabled,    \* the profiles config.filter_enabled_profiles keeps
    project,    \* config.project: ProjectDir, or NoProject
    mtime,      \* included file path -> st_mtime, or -1 when it does not exist
    clock,      \* the current time
    location,   \* TRUE iff the instance location directory exists
    confFile,   \* supervisord.conf: [exists, mtime, text]
    portFile,   \* port.txt: [exists, text]
    pidFile,    \* supervisord.pid: [exists, text]
    proc,       \* pid -> [kind, port]: the process table
    busy,       \* ports other programs listen on
    pc,         \* invoker -> position in its command
    cmd,        \* invoker -> the command it runs
    local,      \* invoker -> run()'s locals [needs_new_config, already_running]
    outcome,    \* invoker -> [returned, error]: what the command ended with
    trace,      \* invoker -> the effects the invocation has performed, in order
    before,     \* invoker -> the files and the liveness it found when it began,
                \*            and whether the daemon has exited under it since
    lastRun,    \* what run() last returned, "" once anything has happened since
    stdout,     \* what dump_config last printed
    filesLog    \* the last `files add` or `files remove`: [cmd, file, was, saved]

vars == <<settings, enabled, project, mtime, clock, location, confFile, portFile,
          pidFile, proc, busy, pc, cmd, local, outcome, trace, before, lastRun, stdout,
          filesLog>>

confVars == <<settings, enabled, project, filesLog>>
diskVars == <<mtime, clock>>
instVars == <<location, confFile, portFile, pidFile>>
procVars == <<proc, busy>>
invVars == <<pc, cmd, local, outcome, trace, before>>

(***************************************************************************)
(* Text conversions.  str(n) is TLC's ToString; int(s) is its inverse on   *)
(* the numbers the files can hold.                                         *)
(***************************************************************************)
Numbers == Pids \cup Ports

\* str(n)
Str(n) == ToString(n)

\* int(text) for the decimal text of a number
ParseInt(text) == CHOOSE n \in Numbers : Str(n) = text

\* " ".join(seq)
RECURSIVE JoinSpace(_)
JoinSpace(seq) ==
    IF seq = <<>> THEN ""
    ELSE IF Len(seq) = 1 THEN seq[1]
    ELSE seq[1] \o " " \o JoinSpace(Tail(seq))

NoFile == [exists |-> FALSE, text |-> ""]
NoConf == [exists |-> FALSE, mtime |-> -1, text |-> <<>>]
TextFile(text) == [exists |-> TRUE, text |-> text]

(***************************************************************************)
(* Supervisor.resolved_files                                               *)
(***************************************************************************)
Exists(path) == mtime[path] >= 0

\* faulty variant: no second look in the project
ResolveRefNoProject(loc, file) ==
    IF ~IsAbsolute(file) /\ Exists(PathJoin(loc, file)) THEN <<PathJoin(loc, file)>> ELSE <<>>

\* the body of the inner loop, for one file reference of one profile
ResolveRef(loc, file) ==
    IF ~IsAbsolute(file)
    THEN IF Exists(PathJoin(loc, file))
         THEN <<PathJoin(loc, file)>>
         ELSE IF project # NoProject /\ Exists(PathJoin(project, file))
              THEN <<PathJoin(project, file)>>
              ELSE <<>>      \* LOGGER.warning(... does not exist anymore)
    ELSE <<>>                \* no branch yields an absolute reference

\* the inner loop: the files of one profile, in declared order
RECURSIVE ResolveProfile(_, _)
ResolveProfile(loc, files) ==
    IF files = <<>> THEN <<>>
    ELSE ResolveRef(loc, Head(files)) \o ResolveProfile(loc, Tail(files))

\* the outer loop: the enabled profiles from index i on, in order
RECURSIVE ResolveFrom(_)
ResolveFrom(i) ==
    IF i > Len(Profiles) THEN <<>>
    ELSE (IF Profiles[i] \in enabled
          THEN ResolveProfile(Profiles[i], settings[Profiles[i]])
          ELSE <<>>) \o ResolveFrom(i + 1)

ResolvedFiles == ResolveFrom(1)

(***************************************************************************)
(* Supervisor.port and Supervisor.configuration                            *)
(***************************************************************************)
\* the text f"{self.port}" puts in the configuration: None without a port file
PortText(pf) == IF pf.exists THEN Str(ParseInt(pf.text)) ELSE "None"

\* faulty variant: the paths run together
IncludeLineUnseparated(files) ==
    "files = " \o (IF files = <<>> THEN "" ELSE files[1] \o JoinSpace(Tail(files)))

\* the last line of the configuration
IncludeLine(files) == "files = " \o JoinSpace(files)

\* the configuration, as its lines (the text starts with an empty line)
ConfigurationText(pf, files) ==
    << "",
       "[unix_http_server]",
       "file=" \o SocketPath,
       "",
       "[inet_http_server]",
       "port=:" \o PortText(pf),
       "",
       "[supervisord]",
       "logfile=" \o LogPath,
       "logfile_maxbytes=50MB",
       "logfile_backups=10",
       "loglevel=info",
       "pidfile=" \o PidPath,
       "nodaemon=false",
       "minfds=1024",
       "minprocs=200",
       "childlogdir=" \o Location,
       "",
       "[rpcinterface:supervisor]",
       "supervisor.rpcinterface_factory = supervisor.rpcinterface:make_main_rpcinterface",
       "",
       "[supervisorctl]",
       "serverurl=unix://" \o SocketPath,
       "",
       "[include]",
       IncludeLine(files) >>

Configuration == ConfigurationText(portFile, ResolvedFiles)

(***************************************************************************)
(* The process table.  A process is a daemon that is running, a daemon     *)
(* that has accepted a shutdown command and has not exited yet             *)
(* ("stopping"), a process of the same user that is no daemon ("other"),   *)
(* or a process of another user ("foreign").                               *)
(***************************************************************************)
NoProc == [kind |-> "none", port |-> 0]
Daemon(port) == [kind |-> "running", port |-> port]

Alive(pid) == proc[pid].kind # "none"
IsDaemon(pid) == proc[pid].kind \in {"running", "stopping"}
LiveDaemons == {pid \in Pids : IsDaemon(pid)}

\* os.kill(pid, 0) returns: the process exists and may be signalled.
\* It raises OSError when there is no such process (ESRCH) and also when
\* the process belongs to another user (EPERM).
ProbeSucceeds(pid) == proc[pid].kind \in {"running", "stopping", "other"}

\* the pid a new process gets: pids carry no meaning, so the lowest free one
FreePids == {pid \in Pids : ~Alive(pid)}
NewPid == CHOOSE pid \in FreePids : \A q \in FreePids : pid <= q

PortsInUse == busy \cup {proc[pid].port : pid \in LiveDaemons}

\* find_available_port(9001): the first port from 9001 on that nothing
\* listens on; 0 when the search finds none
FindAvailablePort ==
    IF \E port \in Ports : port \notin PortsInUse
    THEN CHOOSE port \in Ports :
             /\ port \notin PortsInUse
             /\ \A q \in Ports : q < port => q \in PortsInUse
    ELSE 0

\* the port the daemon listens on: the port= line of the config it is given
ConfPort(text) ==
    IF \E port \in Ports : text[6] = "port=:" \o Str(port)
    THEN CHOOSE port \in Ports : text[6] = "port=:" \o Str(port)
    ELSE 0

(***************************************************************************)
(* Supervisor.check_and_clean_pid, run by Supervisor.__init__              *)
(***************************************************************************)
PidIsStale == pidFile.exists /\ ~ProbeSucceeds(ParseInt(pidFile.text))

CheckAndCleanPid == IF PidIsStale THEN NoFile ELSE pidFile

(***************************************************************************)
(* Supervisor.needs_new_config                                             *)
(***************************************************************************)
RECURSIVE MaxOf(_)
MaxOf(seq) ==
    IF Len(seq) = 1 THEN seq[1]
    ELSE IF seq[1] >= MaxOf(Tail(seq)) THEN seq[1] ELSE MaxOf(Tail(seq))

\* [os.stat(file).st_mtime for file in self.resolved_files]
ResolvedMtimes == [i \in 1..Len(ResolvedFiles) |-> mtime[ResolvedFiles[i]]]

\* os.stat(self.conf_file) raises FileNotFoundError without a config file;
\* max([]) raises ValueError when no file is resolved
NeedsNewConfigRaises ==
    IF ~confFile.exists THEN "FileNotFoundError"
    ELSE IF ResolvedFiles = <<>> THEN "ValueError"
    ELSE ""

\* faulty variant: a config as old as the newest file counts as stale
NeedsNewConfigOrEqual == confFile.mtime <= MaxOf(ResolvedMtimes)

\* faulty variant: only the first resolved file is compared
NeedsNewConfigFirstOnly == confFile.mtime < ResolvedMtimes[1]

\* faulty variant: the config is rendered anew every time
NeedsNewConfigAlways == TRUE

NeedsNewConfig == confFile.mtime < MaxOf(ResolvedMtimes)

(***************************************************************************)
(* An invocation of the command line: the framework builds the Supervisor  *)
(* (use_settings), whose __init__ runs check_and_clean_pid, and then calls *)
(* the command.                                                            *)
(***************************************************************************)
IdleLocal == [needs_new_config |-> FALSE, already_running |-> FALSE]
NoOutcome == [returned |-> "", error |-> ""]
NoBefore == [conf |-> NoConf, port |-> NoFile, pid |-> NoFile, live |-> "none",
             disturbed |-> FALSE]

\* what the invocation finds when it begins
Snapshot ==
    [conf |-> confFile, port |-> portFile, pid |-> pidFile,
     live |-> IF pidFile.exists THEN proc[ParseInt(pidFile.text)].kind ELSE "none",
     disturbed |-> FALSE]

AllIdle == \A q \in Invokers : pc[q] = "idle"

Returned(p, value) == outcome' = [outcome EXCEPT ![p] = [returned |-> value, error |-> ""]]
Raised(p, error) == outcome' = [outcome EXCEPT ![p] = [returned |-> "", error |-> error]]
Did(p, effects) == trace' = [trace EXCEPT ![p] = @ \o effects]

\* faulty variant: a stale pid file takes the whole location with it
ConstructWipes(p, c) ==
    /\ pc[p] = "idle"
    /\ pidFile' = CheckAndCleanPid
    /\ location' = (location /\ ~PidIsStale)
    /\ confFile' = IF PidIsStale THEN NoConf ELSE confFile
    /\ portFile' = IF PidIsStale THEN NoFile ELSE portFile
    /\ before' = [before EXCEPT ![p] = Snapshot]
    /\ trace' = [trace EXCEPT ![p] = IF PidIsStale THEN <<"unlink_pid">> ELSE <<>>]
    /\ cmd' = [cmd EXCEPT ![p] = c]
    /\ pc' = [pc EXCEPT ![p] = c]
    /\ UNCHANGED <<confVars, diskVars, procVars, local, outcome, lastRun, stdout>>

\* Supervisor.__init__ for invoker p, about to run command c
Construct(p, c) ==
    /\ pc[p] = "idle"
    /\ pidFile' = CheckAndCleanPid
    /\ before' = [before EXCEPT ![p] = Snapshot]
    /\ trace' = [trace EXCEPT ![p] = IF PidIsStale THEN <<"unlink_pid">> ELSE <<>>]
    /\ cmd' = [cmd EXCEPT ![p] = c]
    /\ pc' = [pc EXCEPT ![p] = c]
    /\ UNCHANGED <<confVars, diskVars, location, confFile, portFile, procVars,
                   local, outcome, lastRun, stdout>>

\* `supervisor run`, one invocation at a time
StartRun(p) == AllIdle /\ Construct(p, "run")

\* run(), lines 130-133: the decision
RunDecide(p) ==
    /\ pc[p] = "run"
    /\ IF NeedsNewConfigRaises # ""
       THEN /\ Raised(p, NeedsNewConfigRaises)
            /\ pc' = [pc EXCEPT ![p] = "error"]
            /\ UNCHANGED local
       ELSE /\ local' = [local EXCEPT ![p] = [needs_new_config |-> NeedsNewConfig,
                                              already_running |-> pidFile.exists]]
            /\ IF pidFile.exists /\ ~NeedsNewConfig
               THEN Returned(p, "False") /\ pc' = [pc EXCEPT ![p] = "done"]
               ELSE /\ UNCHANGED outcome
                    /\ pc' = [pc EXCEPT ![p] =
                                 IF pidFile.exists THEN "shutdown"
                                 ELSE IF NeedsNewConfig THEN "config" ELSE "launch"]
    /\ UNCHANGED <<confVars, diskVars, instVars, procVars, cmd, trace, before, lastRun, stdout>>

\* ctl(), given a command the daemon must accept: supervisorctl reads the
\* config file and reaches the daemon serving the socket
CtlReaches(pid) == confFile.exists /\ proc[pid].kind = "running"

\* faulty variant: a shutdown the daemon did not accept is ignored and run()
\* carries on
RunShutdownCarriesOn(p) ==
    /\ pc[p] = "shutdown"
    /\ Did(p, <<"shutdown">>)
    /\ \/ \E pid \in Pids :
               /\ CtlReaches(pid)
               /\ proc' = [proc EXCEPT ![pid].kind = "stopping"]
       \/ /\ ~\E pid \in Pids : CtlReaches(pid)
          /\ UNCHANGED proc
    /\ pc' = [pc EXCEPT ![p] = IF local[p].needs_new_config THEN "config" ELSE "launch"]
    /\ UNCHANGED <<confVars, diskVars, instVars, busy, cmd, local, outcome, before,
                   lastRun, stdout>>

\* run(), lines 134-135: self.shutdown() is ctl(["shutdown"]); it returns
\* once the daemon has accepted the command and raises when it has not
RunShutdown(p) ==
    /\ pc[p] = "shutdown"
    /\ Did(p, <<"shutdown">>)
    /\ \/ /\ \E pid \in Pids :
               /\ CtlReaches(pid)
               /\ proc' = [proc EXCEPT ![pid].kind = "stopping"]
          /\ pc' = [pc EXCEPT ![p] = IF local[p].needs_new_config THEN "config" ELSE "launch"]
          /\ UNCHANGED outcome
       \/ /\ ~\E pid \in Pids : CtlReaches(pid)
          /\ Raised(p, "CalledProcessError")
          /\ pc' = [pc EXCEPT ![p] = "error"]
          /\ UNCHANGED proc
    /\ UNCHANGED <<confVars, diskVars, instVars, busy, cmd, local, before, lastRun, stdout>>

\* faulty variant: the config is rendered before the new port is written
RunCreateConfigRendersFirst(p) ==
    /\ pc[p] = "config"
    /\ FindAvailablePort # 0
    /\ confFile' = [exists |-> TRUE, mtime |-> clock,
                    text |-> ConfigurationText(portFile, ResolvedFiles)]
    /\ portFile' = TextFile(Str(FindAvailablePort))
    /\ location' = TRUE
    /\ Did(p, <<"write_conf", "write_port">>)
    /\ pc' = [pc EXCEPT ![p] = "launch"]
    /\ UNCHANGED <<confVars, diskVars, pidFile, procVars, cmd, local, outcome, before,
                   lastRun, stdout>>

\* create_config(), lines 80-86, reached from run() line 137.  The search
\* for a port is followed as far as the model's ports go.
RunCreateConfig(p) ==
    /\ pc[p] = "config"
    /\ FindAvailablePort # 0
    /\ portFile' = TextFile(Str(FindAvailablePort))
    /\ confFile' = [exists |-> TRUE, mtime |-> clock,
                    text |-> ConfigurationText(portFile', ResolvedFiles)]
    /\ location' = TRUE
    /\ Did(p, <<"write_port", "write_conf">>)
    /\ pc' = [pc EXCEPT ![p] = "launch"]
    /\ UNCHANGED <<confVars, diskVars, pidFile, procVars, cmd, local, outcome, before,
                   lastRun, stdout>>

\* find_available_port finds no port: the search fails with an error
FindAvailablePortFails == FindAvailablePort = 0

\* faulty variant: the config is written although the search has failed
RunCreateConfigWritesAnyway(p) ==
    \/ RunCreateConfig(p)
    \/ /\ pc[p] = "config"
       /\ FindAvailablePortFails
       /\ confFile' = [exists |-> TRUE, mtime |-> clock,
                       text |-> ConfigurationText(portFile, ResolvedFiles)]
       /\ location' = TRUE
       /\ Did(p, <<"write_conf">>)
       /\ Raised(p, "NoAvailablePort")
       /\ pc' = [pc EXCEPT ![p] = "error"]
       /\ UNCHANGED <<confVars, diskVars, portFile, pidFile, procVars, cmd, local,
                      before, lastRun, stdout>>

\* create_config(), lines 80-86, the failure of the search included: the
\* search is the first statement, and neither create_config nor run()
\* catches what it raises
RunCreateConfigOrFail(p) ==
    \/ RunCreateConfig(p)
    \/ /\ pc[p] = "config"
       /\ FindAvailablePortFails
       /\ Raised(p, "NoAvailablePort")
       /\ pc' = [pc EXCEPT ![p] = "error"]
       /\ UNCHANGED <<confVars, diskVars, instVars, procVars, cmd, local, trace, before,
                      lastRun, stdout>>

\* run(), lines 138-144: call(["supervisord", "--config", conf_file]) and
\* return True.  The daemon starts, listens and writes its pid file.
RunLaunch(p) ==
    /\ pc[p] = "launch"
    /\ IF ~confFile.exists
       THEN /\ Raised(p, "CalledProcessError")
            /\ pc' = [pc EXCEPT ![p] = "error"]
            /\ Did(p, <<"launch">>)
            /\ UNCHANGED <<pidFile, proc>>
       ELSE /\ FreePids # {}
            /\ proc' = [proc EXCEPT ![NewPid] = Daemon(ConfPort(confFile.text))]
            /\ pidFile' = TextFile(Str(NewPid))
            /\ Did(p, <<"launch">>)
            /\ Returned(p, "True")
            /\ pc' = [pc EXCEPT ![p] = "done"]
    /\ UNCHANGED <<confVars, diskVars, location, confFile, portFile, busy, cmd, local,
                   before, lastRun, stdout>>

\* the command has ended and the process exits
Exit(p) ==
    /\ pc[p] \in {"done", "error"}
    /\ lastRun' = IF cmd[p] = "run" /\ ~before[p].disturbed THEN outcome[p].returned ELSE ""
    /\ pc' = [pc EXCEPT ![p] = "idle"]
    /\ cmd' = [cmd EXCEPT ![p] = ""]
    /\ local' = [local EXCEPT ![p] = IdleLocal]
    /\ outcome' = [outcome EXCEPT ![p] = NoOutcome]
    /\ trace' = [trace EXCEPT ![p] = <<>>]
    /\ before' = [before EXCEPT ![p] = NoBefore]
    /\ UNCHANGED <<confVars, diskVars, instVars, procVars, stdout>>

\* `supervisor shutdown`: the whole invocation
Shutdown ==
    /\ AllIdle
    /\ pidFile' = CheckAndCleanPid
    /\ \/ \E pid \in Pids :
               /\ CtlReaches(pid)
               /\ proc' = [proc EXCEPT ![pid].kind = "stopping"]
       \/ /\ ~\E pid \in Pids : CtlReaches(pid)
          /\ UNCHANGED proc
    /\ lastRun' = ""
    /\ UNCHANGED <<confVars, diskVars, location, confFile, portFile, busy, invVars, stdout>>

\* `supervisor clean`: the whole invocation; erase is --force or the answer
\* to click.confirm
Clean(erase) ==
    /\ AllIdle
    /\ IF erase
       THEN /\ location' = FALSE
            /\ confFile' = NoConf
            /\ portFile' = NoFile
            /\ pidFile' = NoFile
       ELSE /\ pidFile' = CheckAndCleanPid
            /\ UNCHANGED <<location, confFile, portFile>>
    /\ lastRun' = ""
    /\ UNCHANGED <<confVars, diskVars, procVars, invVars, stdout>>

\* `supervisor dump-config`: the whole invocation; prints the configuration
DumpConfig ==
    /\ AllIdle
    /\ pidFile' = CheckAndCleanPid
    /\ stdout' = Configuration
    /\ lastRun' = ""
    /\ UNCHANGED <<confVars, diskVars, location, confFile, portFile, procVars, invVars>>

(***************************************************************************)
(* The environment: time, the user's edits of the included files, other    *)
(* programs, and the daemon's own life.  Between two invocations anything  *)
(* may happen; during one, only a daemon that was told to shut down acts.  *)
(***************************************************************************)
\* the paths resolved_files may look at
Declared(l) == {settings[l][i] : i \in 1..Len(settings[l])}

Candidates ==
    UNION {{PathJoin(d, f) : d \in {l} \cup (IF project = NoProject THEN {} ELSE {project}),
                             f \in Declared(l) \cap RelRefs} : l \in enabled}
    \cup UNION {Declared(l) \cap AbsRefs : l \in enabled}

\* time passes
Tick ==
    /\ AllIdle
    /\ clock < MaxTime
    /\ clock' = clock + 1
    /\ UNCHANGED <<confVars, mtime, instVars, procVars, invVars, lastRun, stdout>>

\* the user writes (or creates) an included file
Touch(f) ==
    /\ AllIdle
    /\ mtime[f] # clock
    /\ mtime' = [mtime EXCEPT ![f] = clock]
    /\ lastRun' = ""
    /\ UNCHANGED <<confVars, clock, instVars, procVars, invVars, stdout>>

\* the user deletes an included file
Remove(f) ==
    /\ AllIdle
    /\ Exists(f)
    /\ mtime' = [mtime EXCEPT ![f] = -1]
    /\ lastRun' = ""
    /\ UNCHANGED <<confVars, clock, instVars, procVars, invVars, stdout>>

\* an unrelated process gets the pid the pid file names (other pids do not
\* matter to the program)
Spawn(pid, kind) ==
    /\ AllIdle
    /\ ~Alive(pid)
    /\ pidFile.exists /\ ParseInt(pidFile.text) = pid
    /\ proc' = [proc EXCEPT ![pid] = [kind |-> kind, port |-> 0]]
    /\ lastRun' = ""
    /\ UNCHANGED <<confVars, diskVars, instVars, busy, invVars, stdout>>

\* a process dies (killed, crashed, machine restarted): nothing is cleaned
Kill(pid) ==
    /\ AllIdle
    /\ Alive(pid)
    /\ proc' = [proc EXCEPT ![pid] = NoProc]
    /\ lastRun' = ""
    /\ UNCHANGED <<confVars, diskVars, instVars, busy, invVars, stdout>>

\* another program starts or stops listening on a port
Listen(port) ==
    /\ AllIdle
    /\ busy' = IF port \in busy THEN busy \ {port} ELSE busy \cup {port}
    /\ lastRun' = ""
    /\ UNCHANGED <<confVars, diskVars, instVars, proc, invVars, stdout>>

\* a daemon that accepted shutdown exits, at a time of its own choosing
DaemonExits(pid) ==
    /\ proc[pid].kind = "stopping"
    /\ proc' = [proc EXCEPT ![pid] = NoProc]
    /\ IF pidFile.exists /\ ParseInt(pidFile.text) = pid
       THEN /\ pidFile' = NoFile
            /\ lastRun' = ""
            /\ before' = [p \in Invokers |->
                             IF pc[p] = "idle" THEN before[p]
                             ELSE [before[p] EXCEPT !.disturbed = TRUE]]
       ELSE UNCHANGED <<pidFile, lastRun, before>>
    /\ UNCHANGED <<confVars, diskVars, location, confFile, portFile, busy,
                   pc, cmd, local, outcome, trace, stdout>>

(***************************************************************************)
(* Initial states.  The instance is fresh (no location yet) or holds what  *)
(* an earlier create_config wrote at time 0; no daemon runs.               *)
(***************************************************************************)
Fresh == [location |-> FALSE, conf |-> NoConf, port |-> NoFile]

Provisioned(port, files) ==
    [location |-> TRUE,
     conf |-> [exists |-> TRUE, mtime |-> 0,
               text |-> ConfigurationText(TextFile(Str(port)), files)],
     port |-> TextFile(Str(port))]

NoFilesLog == [cmd |-> "", file |-> "", was |-> <<>>, saved |-> FALSE]

InitInvocations ==
    /\ filesLog = NoFilesLog
    /\ pc = [p \in Invokers |-> "idle"]
    /\ cmd = [p \in Invokers |-> ""]
    /\ local = [p \in Invokers |-> IdleLocal]
    /\ outcome = [p \in Invokers |-> NoOutcome]
    /\ trace = [p \in Invokers |-> <<>>]
    /\ before = [p \in Invokers |-> NoBefore]
    /\ lastRun = ""
    /\ stdout = <<>>

InitInstance ==
    /\ clock = 0
    /\ pidFile = NoFile
    /\ proc = [pid \in Pids |-> NoProc]
    /\ busy = {}
    /\ \E inst \in {Fresh, Provisioned(BasePort, ResolvedFiles)} :
          /\ location = inst.location
          /\ confFile = inst.conf
          /\ portFile = inst.port

\* the life cycle: two profiles with one file each, or no file declared
Init ==
    /\ settings \in {[l \in ProfileSet |-> IF l = "/x" THEN <<"a.conf">> ELSE <<"b.conf">>],
                     [l \in ProfileSet |-> <<>>]}
    /\ enabled = ProfileSet
    /\ project = NoProject
    /\ mtime = [f \in DiskPaths |-> IF f \in Candidates THEN 0 ELSE -1]
    /\ InitInstance
    /\ InitInvocations

\* invocations follow one another: a single invoker
Next ==
    \/ StartRun(1)
    \/ RunDecide(1)
    \/ RunShutdown(1)
    \/ RunCreateConfig(1)
    \/ RunLaunch(1)
    \/ Exit(1)
    \/ Shutdown
    \/ \E erase \in BOOLEAN : Clean(erase)
    \/ Tick
    \/ \E f \in Candidates : Touch(f)
    \/ \E f \in Candidates : Remove(f)
    \/ \E pid \in Pids, kind \in {"other", "foreign"} : Spawn(pid, kind)
    \/ \E pid \in Pids : Kill(pid)
    \/ \E pid \in Pids : DaemonExits(pid)

Spec == Init /\ [][Next]_vars

(***************************************************************************)
(* `supervisor files add` and `supervisor files remove`: the "files" list  *)
(* of the profile the settings are written to.  Each is a whole            *)
(* invocation; config.supervisor.save() is what makes its change last.     *)
(***************************************************************************)
\* config.supervisor.profile: the profile that is written to
WriteProfile == Profiles[Len(Profiles)]

\* Supervisor.files: the writable list, [] when the key is not there
Files == settings[WriteProfile]

InList(file, list) == \E i \in 1..Len(list) : list[i] = file

\* what the user may type after `files add`, in the root directory
AddArguments == {"y/a.conf", "y/b.conf", "p/a.conf", "p/b.conf"} \cup AbsRefs

\* Path(file).resolve(), the current directory being the root
ResolveArg(file) == IF IsAbsolute(file) THEN file ELSE "/" \o file

\* path.is_relative_to(dir) and path.relative_to(dir)
IsRelativeTo(path, dir) == \E r \in RelRefs : path = PathJoin(dir, r)
RelativeTo(path, dir) == CHOOSE r \in RelRefs : path = PathJoin(dir, r)

\* add, lines 188-197: the entry that stands for the file
ToAdd(file) ==
    IF IsAbsolute(file) THEN ResolveArg(file)
    ELSE IF IsRelativeTo(ResolveArg(file), WriteProfile)
         THEN RelativeTo(ResolveArg(file), WriteProfile)
    ELSE IF project # NoProject /\ IsRelativeTo(ResolveArg(file), project)
         THEN RelativeTo(ResolveArg(file), project)
    ELSE file

\* list.remove(file): the first occurrence goes
RemoveFirst(list, file) ==
    LET i == CHOOSE k \in 1..Len(list) : list[k] = file /\ \A j \in 1..(k - 1) : list[j] # file
    IN  SubSeq(list, 1, i - 1) \o SubSeq(list, i + 1, Len(list))

\* remove, lines 211-212: while file in files: files.remove(file)
RECURSIVE RemoveAll(_, _)
RemoveAll(list, file) ==
    IF InList(file, list) THEN RemoveAll(RemoveFirst(list, file), file) ELSE list

\* SupervisorFileList.choices: the entries of the merged settings
Choices == UNION {Declared(l) : l \in enabled}

\* faulty variant: the entry is appended without looking for it in the list
FilesAddAppends(file) ==
    /\ AllIdle
    /\ Len(Files) < MaxFiles
    /\ pidFile' = CheckAndCleanPid
    /\ settings' = [settings EXCEPT ![WriteProfile] = Append(@, ToAdd(file))]
    /\ filesLog' = [cmd |-> "add", file |-> ToAdd(file), was |-> Files, saved |-> TRUE]
    /\ lastRun' = ""
    /\ UNCHANGED <<enabled, project, diskVars, location, confFile, portFile, procVars,
                   invVars, stdout>>

\* `supervisor files add FILE`, lines 185-205
FilesAdd(file) ==
    /\ AllIdle
    /\ pidFile' = CheckAndCleanPid
    /\ IF InList(ToAdd(file), Files)
       THEN /\ UNCHANGED settings
            /\ filesLog' = [cmd |-> "add", file |-> ToAdd(file), was |-> Files,
                            saved |-> FALSE]
       ELSE /\ Len(Files) < MaxFiles
            /\ settings' = [settings EXCEPT ![WriteProfile] = Append(@, ToAdd(file))]
            /\ filesLog' = [cmd |-> "add", file |-> ToAdd(file), was |-> Files,
                            saved |-> TRUE]
    /\ lastRun' = ""
    /\ UNCHANGED <<enabled, project, diskVars, location, confFile, portFile, procVars,
                   invVars, stdout>>

\* `supervisor files remove FILE`, lines 208-215
FilesRemove(file) ==
    /\ AllIdle
    /\ file \in Choices
    /\ pidFile' = CheckAndCleanPid
    /\ settings' = [settings EXCEPT ![WriteProfile] = RemoveAll(@, file)]
    /\ filesLog' = [cmd |-> "remove", file |-> file, was |-> Files, saved |-> TRUE]
    /\ lastRun' = ""
    /\ UNCHANGED <<enabled, project, diskVars, location, confFile, portFile, procVars,
                   invVars, stdout>>

SeqsUpTo(n, S) == UNION {[1..k -> S] : k \in 0..n}

\* every entry a list can hold
Entries == Refs \cup AddArguments

NoDuplicates(list) == \A i, j \in 1..Len(list) : list[i] = list[j] => i = j

\* a writable list without duplicates, the other profile with a file or none
ListInit ==
    /\ settings \in [ProfileSet -> SeqsUpTo(MaxFiles, Refs)]
    /\ NoDuplicates(Files)
    /\ \A l \in ProfileSet \ {WriteProfile} : Len(settings[l]) <= 1
    /\ enabled = ProfileSet
    /\ project \in {NoProject, ProjectDir}
    /\ mtime = [f \in DiskPaths |-> -1]
    /\ InitInstance
    /\ InitInvocations

ListNext ==
    \/ \E file \in AddArguments : FilesAdd(file)
    \/ \E file \in Entries : FilesRemove(file)

ListSpec == ListInit /\ [][ListNext]_vars

(***************************************************************************)
(* The life cycle where other programs take and release ports, so that the *)
(* search for a port can fail.                                             *)
(***************************************************************************)
PortNext ==
    \/ StartRun(1)
    \/ RunDecide(1)
    \/ RunShutdown(1)
    \/ RunCreateConfigOrFail(1)
    \/ RunLaunch(1)
    \/ Exit(1)
    \/ Tick
    \/ \E f \in Candidates : Touch(f)
    \/ \E port \in Ports : Listen(port)
    \/ \E pid \in Pids : DaemonExits(pid)

PortSpec == Init /\ [][PortNext]_vars

(***************************************************************************)
(* Two `supervisor run` invocations at the same time: the steps of run()   *)
(* of one interleave with those of the other.  Nothing in run() or in      *)
(* __init__ takes a lock.                                                  *)
(***************************************************************************)
\* the two invocations that run side by side
Racers == {1, 2}

\* faulty variant: an invocation waits until no other is under way
ConcStartRunLocked(p) ==
    /\ \A q \in Racers \ {p} : pc[q] = "idle"
    /\ Construct(p, "run")

\* `supervisor run`, whatever the other invocations are doing
ConcStartRun(p) == Construct(p, "run")

ConcNext ==
    \/ \E p \in Racers : ConcStartRun(p)
    \/ \E p \in Racers : RunDecide(p)
    \/ \E p \in Racers : RunShutdown(p)
    \/ \E p \in Racers : RunCreateConfig(p)
    \/ \E p \in Racers : RunLaunch(p)
    \/ \E p \in Racers : Exit(p)
    \/ \E f \in Candidates : Touch(f)
    \/ \E pid \in Pids : DaemonExits(pid)

\* no daemon, no pid file; the config and the included files were written
\* at time 0, and it is now later
ConcInit ==
    /\ settings \in {[l \in ProfileSet |-> IF l = "/x" THEN <<"a.conf">> ELSE <<"b.conf">>],
                     [l \in ProfileSet |-> <<>>]}
    /\ enabled = ProfileSet
    /\ project = NoProject
    /\ clock = 1
    /\ mtime = [f \in DiskPaths |-> IF f \in Candidates THEN 0 ELSE -1]
    /\ pidFile = NoFile
    /\ proc = [pid \in Pids |-> NoProc]
    /\ busy = {}
    /\ \E inst \in {Fresh, Provisioned(BasePort, ResolvedFiles)} :
          /\ location = inst.location
          /\ confFile = inst.conf
          /\ portFile = inst.port
    /\ InitInvocations

ConcSpec == ConcInit /\ [][ConcNext]_vars

(***************************************************************************)
(* The files side: any "files" lists of up to MaxFiles references, any     *)
(* set of enabled profiles, with or without a project, any of the files    *)
(* they can name present or not; the configuration is rendered from them.  *)
(***************************************************************************)

FilesInit ==
    /\ settings \in [ProfileSet -> SeqsUpTo(MaxFiles, Refs)]
    /\ enabled \in SUBSET ProfileSet
    /\ project \in {NoProject, ProjectDir}
    /\ mtime \in [DiskPaths -> {-1, 0}]
    /\ \A f \in DiskPaths : Exists(f) => f \in Candidates
    /\ InitInstance
    /\ InitInvocations

FilesNext == DumpConfig

FilesSpec == FilesInit /\ [][FilesNext]_vars

(***************************************************************************)
(* Properties of run()                                                     *)
(***************************************************************************)
\* invoker p's run() has ended, by a return or by an exception
RunEnded(p) == cmd[p] = "run" /\ pc[p] \in {"done", "error"}

\* how many times the invocation performed an effect
Count(p, effect) == Cardinality({i \in 1..Len(trace[p]) : trace[p][i] = effect})

\* there was no pid file left once the invocation had healed it
NotRunningAtStart(p) == ~before[p].pid.exists \/ Count(p, "unlink_pid") = 1

\* the pid file named a running daemon when the invocation began
RunningAtStart(p) == before[p].pid.exists /\ before[p].live = "running"

\* some resolved file was newer than the config the invocation found (the
\* included files do not change during an invocation)
StaleAtStart(p) ==
    /\ before[p].conf.exists
    /\ \E i \in 1..Len(ResolvedFiles) : mtime[ResolvedFiles[i]] > before[p].conf.mtime

\* the invocation left the three files of the instance as it found them
FilesAsFound(p) ==
    confFile = before[p].conf /\ portFile = before[p].port /\ pidFile = before[p].pid

\* C1: whenever no pid file is left after the self-heal (also when neither
\* the config file nor the port file exists yet), run() rewrites the config
\* if it is stale or missing, launches the daemon exactly once and returns
\* True; it never aborts.
C1_NotRunningStarts ==
    \A p \in Invokers :
        (RunEnded(p) /\ NotRunningAtStart(p)) =>
            /\ pc[p] = "done"
            /\ outcome[p].returned = "True"
            /\ Count(p, "launch") = 1
            /\ (~before[p].conf.exists \/ StaleAtStart(p)) => Count(p, "write_conf") = 1

\* C2: a run() that follows a run() with nothing happening in between (the
\* daemon alive, no file touched) performs no effect, leaves the config, port
\* and pid files as they are and returns False.
C2_SecondRunDoesNothing ==
    \A p \in Invokers :
        (RunEnded(p) /\ lastRun # "") =>
            /\ pc[p] = "done"
            /\ outcome[p].returned = "False"
            /\ trace[p] = <<>>
            /\ FilesAsFound(p)

\* a second run() has returned after a first one that started the daemon
C2_Witness ==
    \E p \in Invokers :
        RunEnded(p) /\ lastRun = "True" /\ outcome[p].returned = "False"

\* C3: a run() that finds a running daemon and a resolved file newer than
\* the config sends shutdown, then rewrites port and config, then launches,
\* in this order, and returns True; the config is then no older than any
\* resolved file.
C3_StaleRestarts ==
    \A p \in Invokers :
        (RunEnded(p) /\ RunningAtStart(p) /\ StaleAtStart(p)) =>
            /\ pc[p] = "done"
            /\ outcome[p].returned = "True"
            /\ trace[p] = <<"shutdown", "write_port", "write_conf", "launch">>
            /\ \A i \in 1..Len(ResolvedFiles) : mtime[ResolvedFiles[i]] <= confFile.mtime

\* a restart has happened with two files resolved, only the second one newer
C3_Witness ==
    \E p \in Invokers :
        /\ RunEnded(p) /\ RunningAtStart(p) /\ StaleAtStart(p)
        /\ Len(ResolvedFiles) = 2
        /\ mtime[ResolvedFiles[1]] <= before[p].conf.mtime
        /\ outcome[p].returned = "True"

\* C4: no state has two live daemons of the instance.
C4_OneDaemon == Cardinality(LiveDaemons) <= 1

\* C5: when the pid file names a pid with no live process, the constructor
\* deletes it, so that run() sees no daemon; when it names a live process,
\* the constructor leaves it in place.
C5_SelfHeal ==
    \A p \in Invokers :
        (pc[p] # "idle" /\ before[p].pid.exists) =>
            IF before[p].live = "none"
            THEN Count(p, "unlink_pid") = 1 /\ ~local[p].already_running
            ELSE Count(p, "unlink_pid") = 0

\* C6: a run() that restarts the daemon while port.txt exists keeps the port:
\* port.txt and the port of the rendered config are what they were.
C6_PortReused ==
    \A p \in Invokers :
        (RunEnded(p) /\ pc[p] = "done" /\ before[p].port.exists /\ Count(p, "launch") = 1) =>
            /\ portFile = before[p].port
            /\ ConfPort(confFile.text) = ParseInt(before[p].port.text)

\* C7: run() does not abort because included files are missing: with a
\* config file in place and every declared file missing (or none declared),
\* it still ends by a return.
C7_MissingFilesNotFatal ==
    \A p \in Invokers :
        (RunEnded(p) /\ before[p].conf.exists /\ ResolvedFiles = <<>>) => pc[p] = "done"

(***************************************************************************)
(* Properties of resolved_files and of the configuration                   *)
(***************************************************************************)
\* the positions <<profile index, file index>> of the declared references
Positions ==
    {pos \in (1..Len(Profiles)) \X (1..MaxFiles) :
        Profiles[pos[1]] \in enabled /\ pos[2] <= Len(settings[Profiles[pos[1]]])}

RefAt(pos) == settings[Profiles[pos[1]]][pos[2]]
InLayer(pos) == PathJoin(Profiles[pos[1]], RefAt(pos))
InProject(pos) == PathJoin(ProjectDir, RefAt(pos))

\* the relative references that resolve, and those that are omitted
Resolvable(pos) ==
    Exists(InLayer(pos)) \/ (project = ProjectDir /\ Exists(InProject(pos)))
KeptPositions == {pos \in Positions : RefAt(pos) \in RelRefs /\ Resolvable(pos)}
OmittedPositions == {pos \in Positions : RefAt(pos) \in RelRefs /\ ~Resolvable(pos)}

\* priority order of the profiles, then declared order
NotAfter(a, b) == a[1] < b[1] \/ (a[1] = b[1] /\ a[2] <= b[2])
Rank(pos) == Cardinality({q \in KeptPositions : NotAfter(q, pos)})

\* the paths of the sequence that come from relative references
FromRelative(seq) == SelectSeq(seq, LAMBDA path : path \notin AbsRefs)

\* the paths separated by single spaces, built from the right
RECURSIVE SpaceSeparated(_)
SpaceSeparated(seq) ==
    IF Len(seq) = 0 THEN ""
    ELSE IF Len(seq) = 1 THEN seq[1]
    ELSE SpaceSeparated(SubSeq(seq, 1, Len(seq) - 1)) \o " " \o seq[Len(seq)]

\* the configuration has been rendered from the present settings and files
Rendered == stdout # <<>>

\* C8: the relative references that resolve appear in the output in
\* priority-then-declared order, each as the path under its profile if that
\* exists and else as the path under the project, duplicates kept; an omitted
\* reference appears neither in the output nor in the rendered include line.
C8_RelativeResolution ==
    Rendered =>
        LET out == FromRelative(ResolvedFiles) IN
        /\ Len(out) = Cardinality(KeptPositions)
        /\ \A pos \in KeptPositions :
               out[Rank(pos)] = IF Exists(InLayer(pos)) THEN InLayer(pos) ELSE InProject(pos)
        /\ \A pos \in OmittedPositions, k \in 1..Len(ResolvedFiles) :
               ResolvedFiles[k] \notin {InLayer(pos), InProject(pos)}
        /\ stdout[Len(stdout)] = "files = " \o SpaceSeparated(ResolvedFiles)

\* a rendering in which a reference fell back to the project, another was
\* omitted, and a path was resolved twice
C8_Witness ==
    /\ Rendered
    /\ OmittedPositions # {}
    /\ \E pos \in KeptPositions : ~Exists(InLayer(pos))
    /\ \E i, j \in 1..Len(ResolvedFiles) : i # j /\ ResolvedFiles[i] = ResolvedFiles[j]

\* C9: every absolute reference an enabled profile declares (and that
\* exists) is in the resolved files, hence in the include directive.
C9_AbsoluteIncluded ==
    Rendered =>
        \A pos \in Positions :
            (RefAt(pos) \in AbsRefs /\ Exists(RefAt(pos))) =>
                \E k \in 1..Len(ResolvedFiles) : ResolvedFiles[k] = RefAt(pos)

\* the line that follows the [include] header is the given one
IncludeSectionIs(line) ==
    \E i \in 1..(Len(stdout) - 1) : stdout[i] = "[include]" /\ stdout[i + 1] = line

\* C10 as stated: under [include] the line is `include = ` and the paths.
C10_IncludeKey ==
    Rendered => IncludeSectionIs("include = " \o SpaceSeparated(ResolvedFiles))

\* C10 as amended: under [include] the line is `files = ` and the resolved
\* paths in order, separated by single spaces.
C10_FilesKey ==
    Rendered =>
        /\ IncludeSectionIs("files = " \o SpaceSeparated(ResolvedFiles))
        /\ ResolvedFiles = <<"/x/a.conf", "/y/b.conf">> =>
               IncludeSectionIs("files = /x/a.conf /y/b.conf")

\* the rendering of the example of the specification
C10_Witness == Rendered /\ ResolvedFiles = <<"/x/a.conf", "/y/b.conf">>

(***************************************************************************)
(* Properties of concurrent invocations                                    *)
(***************************************************************************)
\* the step of run() invoker p is at can be taken, whatever the position of
\* the other invokers (a launch needs a free pid, a rewrite a free port)
StepEnabled(p) ==
    /\ pc[p] = "run" => ENABLED RunDecide(p)
    /\ pc[p] = "shutdown" => ENABLED RunShutdown(p)
    /\ (pc[p] = "config" /\ FindAvailablePort # 0) => ENABLED RunCreateConfig(p)
    /\ (pc[p] = "launch" /\ FreePids # {}) => ENABLED RunLaunch(p)
    /\ pc[p] = "idle" => ENABLED ConcStartRun(p)

\* C11: no step of run() is excluded by another invocation being under way
\* (no lock), so that two invocations that both found no pid file both
\* launch the daemon.
C11_NoLock == \A p \in Racers : StepEnabled(p)

\* two invocations began with no daemon and no pid file, both saw the pid
\* file absent, both launched: two daemons are live
C11_Witness ==
    \E p, q \in Racers :
        /\ p # q
        /\ RunEnded(p) /\ RunEnded(q)
        /\ ~before[p].pid.exists /\ ~before[q].pid.exists
        /\ ~local[p].already_running /\ ~local[q].already_running
        /\ Count(p, "launch") = 1 /\ Count(q, "launch") = 1
        /\ outcome[p].returned = "True" /\ outcome[q].returned = "True"
        /\ Cardinality(LiveDaemons) = 2

(***************************************************************************)
(* Properties of run(), continued                                          *)
(***************************************************************************)
\* run() issued the shutdown command and no running daemon was there to
\* accept it: the pid file named a process that was no running daemon
ShutdownFailed(p) ==
    /\ cmd[p] = "run"
    /\ Count(p, "shutdown") >= 1
    /\ before[p].live # "running"

\* C12: when the shutdown command issued by run() fails, run() aborts with
\* the error, having issued the command once and nothing else; the config
\* file and the port file are as found, and so is the pid file unless a
\* daemon removed it on exiting.
C12_ShutdownFailureHard ==
    \A p \in Invokers :
        ShutdownFailed(p) =>
            /\ pc[p] = "error"
            /\ outcome[p].error = "CalledProcessError"
            /\ trace[p] = <<"shutdown">>
            /\ confFile = before[p].conf
            /\ portFile = before[p].port
            /\ ~before[p].disturbed => pidFile = before[p].pid

C12_Witness ==
    \E p \in Invokers :
        /\ ShutdownFailed(p)
        /\ before[p].live = "stopping"
        /\ pc[p] = "error"
        /\ FilesAsFound(p)

\* the invocation found a config at least as recent as every resolved file
UpToDateAtStart(p) ==
    /\ cmd[p] = "run"
    /\ before[p].conf.exists
    /\ ~StaleAtStart(p)

\* C13: a run() that does not need a new config, whether it finds the
\* daemon running or starts it with the existing config, leaves port.txt
\* and the config file as it found them, at every step and at its end.
C13_PortPersistence ==
    \A p \in Invokers :
        UpToDateAtStart(p) =>
            /\ confFile = before[p].conf
            /\ portFile = before[p].port
            /\ Count(p, "write_port") = 0
            /\ Count(p, "write_conf") = 0

\* the daemon was started with the existing config, and the port read back
\* is the one the config was rendered with
C13_Witness ==
    \E p \in Invokers :
        /\ UpToDateAtStart(p)
        /\ RunEnded(p)
        /\ outcome[p].returned = "True"
        /\ Count(p, "launch") = 1
        /\ portFile.exists
        /\ ParseInt(portFile.text) = ConfPort(confFile.text)

(***************************************************************************)
(* The pid file and the daemon                                             *)
(***************************************************************************)
\* the invocation of p is past the self-heal of its construction
Healed(p) == pc[p] # "idle"

\* C14: in every state reached by run, shutdown and clean invocations there
\* is no live daemon without a pid file, and once an invocation has healed
\* the pid file there is no pid file that names no live daemon.
C14_PidFileIffDaemon ==
    /\ LiveDaemons # {} => pidFile.exists
    /\ \A p \in Invokers :
          (Healed(p) /\ pidFile.exists) => IsDaemon(ParseInt(pidFile.text))

(***************************************************************************)
(* What reconciliation may remove                                          *)
(***************************************************************************)
\* the step keeps the location, the config file and the port file
KeepsLocation ==
    /\ location => location'
    /\ confFile.exists => confFile'.exists
    /\ portFile.exists => portFile'.exists

\* the step removes the pid file
UnlinksPid == pidFile.exists /\ ~pidFile'.exists

\* C15: no step of construction or of run() removes the location, the
\* config file or the port file, and the only pid file such a step removes
\* is a stale one; the location goes with the clean command alone (a
\* daemon that exits takes its own pid file with it).
C15_LocationKept ==
    [][/\ KeepsLocation \/ Clean(TRUE)
       /\ UnlinksPid => \/ PidIsStale
                        \/ Clean(TRUE)
                        \/ \E pid \in Pids : DaemonExits(pid)]_vars

\* run() has ended, after the construction removed a stale pid file, and
\* the location with its config file and port file is there
C15_Witness ==
    \E p \in Invokers :
        /\ RunEnded(p)
        /\ Count(p, "unlink_pid") = 1
        /\ before[p].conf.exists /\ before[p].port.exists
        /\ location /\ confFile.exists /\ portFile.exists

(***************************************************************************)
(* The config file and the port file                                       *)
(***************************************************************************)
\* C17: whenever both files exist, the port in the [inet_http_server]
\* section of the config file is the integer stored in port.txt.
C17_ConfigPortConsistent ==
    (confFile.exists /\ portFile.exists) =>
        ConfPort(confFile.text) = ParseInt(portFile.text)

\* a rewrite has moved the instance to another port, and both files say so
C17_Witness ==
    /\ confFile.exists /\ portFile.exists
    /\ ParseInt(portFile.text) # BasePort
    /\ ConfPort(confFile.text) = ParseInt(portFile.text)
    /\ \E p \in Invokers : RunEnded(p) /\ Count(p, "write_conf") = 1

(***************************************************************************)
(* The search for a port fails                                             *)
(***************************************************************************)
\* run() ended on the failure of the search for a port
PortSearchFailed(p) == cmd[p] = "run" /\ outcome[p].error = "NoAvailablePort"

\* C16: when no available port is found during a config rewrite, run()
\* ends in an error, having written neither port.txt nor the config file
\* and having launched no daemon.
C16_PortFailureFatal ==
    \A p \in Invokers :
        PortSearchFailed(p) =>
            /\ pc[p] = "error"
            /\ outcome[p].returned = ""
            /\ Count(p, "write_port") = 0
            /\ Count(p, "write_conf") = 0
            /\ Count(p, "launch") = 0
            /\ confFile = before[p].conf
            /\ portFile = before[p].port

\* every port is taken, the config was stale, and run() has ended in the
\* error
C16_Witness ==
    \E p \in Invokers :
        /\ PortSearchFailed(p)
        /\ RunEnded(p)
        /\ local[p].needs_new_config
        /\ Ports \subseteq PortsInUse

(***************************************************************************)
(* Properties of the writable "files" list                                 *)
(***************************************************************************)
\* C18: from a writable list without duplicates, after any `files add` and
\* `files remove` the list holds no entry twice; an add of an entry already
\* in the list leaves the list as it was and saves nothing, any other add
\* appends the entry and saves; after a remove the entry is not in the list.
C18_NoDuplicates ==
    /\ NoDuplicates(Files)
    /\ filesLog.cmd = "add" =>
          IF InList(filesLog.file, filesLog.was)
          THEN Files = filesLog.was /\ ~filesLog.saved
          ELSE Files = Append(filesLog.was, filesLog.file) /\ filesLog.saved
    /\ filesLog.cmd = "remove" => ~InList(filesLog.file, Files)

\* an add of an entry that was in the list: nothing appended, nothing saved
C18_Witness ==
    /\ filesLog.cmd = "add"
    /\ InList(filesLog.file, filesLog.was)
    /\ ~filesLog.saved
    /\ Files = filesLog.was

====
